---- MODULE Spec2Model ----
(***************************************************************************)
(* dirwatcher.py: a poll loop (main) that calls watch_dir on one directory *)
(* each interval; watch_dir lists the directory, calls scan_file on every  *)
(* listed non-directory entry and then drops the tracked paths that are no *)
(* longer listed.  The history is a Python dict path -> (max_num, size),   *)
(* modelled as the sequence of its items in insertion order.               *)
(*                                                                         *)
(* The file system is the environment: it changes between any two system   *)
(* calls of the program, so every system call of the program is a step of  *)
(* its own (isdir, scandir, stat, open+read, stat, sleep).                 *)
(***************************************************************************)
EXTENDS Integers, Sequences, FiniteSets, TLC

\* Number of changes other processes make to the watched directory in one
\* run; a file is created with at most one line and grows by appends, so
\* this also bounds the length of every file.
MaxEnvSteps == 3

\* File names are sequences of characters, so that endswith is computed.
LogName == <<"a", ".", "l">>
TxtName == <<"b", ".", "t">>
Names == {LogName, TxtName}
DirPath == <<"d">>
LogExt == <<".", "l">>
NoExt == <<>>
Signals == {"SIGINT", "SIGTERM"}

VARIABLES
  dirExists,   \* the watched directory exists
  fs,          \* name -> entry of the watched directory
  envLeft,     \* environment changes left
  ext,         \* args.extension (NoExt: None)
  exit_flag,   \* the global exit_flag
  pc,          \* where main is
  history,     \* main's history dict
  whist,       \* watch_dir's history dict
  wAlias,      \* watch_dir's dict is main's dict (the same object)
  shist,       \* scan_file's history dict
  sAlias,      \* scan_file's dict is watch_dir's dict (the same object)
  files,       \* watch_dir's files list
  listed,      \* os.scandir succeeded in the current cycle
  todo,        \* what is left of `for file in files`
  max_num,     \* scan_file's max_num
  events,      \* log records of the current poll cycle, in order
  hist0,       \* history as it was when the current cycle started
  raised,      \* the current cycle ended in main's except clause
  skipped,     \* names scan_file returned early for in the current cycle
  prevRead,    \* name -> lines the read before the last one saw
  lastRead,    \* name -> lines the last read of the file saw
  reads,       \* names scan_file read in the current cycle
  discCount,   \* name -> 'New file' records since the file entered the listing
  probeOk,     \* the file could be opened when scan_file's first os.stat ran
  failedRead,  \* names whose last read failed on an unreadable file that has
               \* not changed since
  quiet        \* no other process has changed the directory since the
               \* current call of watch_dir began

vars == <<dirExists, fs, envLeft, ext, exit_flag, pc, history, whist, wAlias,
          shist, sAlias, files, listed, todo, max_num, events, hist0, raised,
          skipped, prevRead, lastRead, reads, discCount, probeOk,
          failedRead, quiet>>

envVars == <<dirExists, fs, envLeft>>
progVars == <<exit_flag, pc, history, events, hist0, raised, skipped, reads,
              files, listed>>
locals == <<whist, wAlias, shist, sAlias, todo, max_num, probeOk>>
ghosts == <<prevRead, lastRead, discCount, failedRead>>

----------------------------------------------------------------------------
\* Sequences and the file system

Range(s) == {s[i] : i \in 1..Len(s)}

Min(a, b) == IF a < b THEN a ELSE b

\* str.endswith
EndsWith(s, suf) ==
  /\ Len(suf) <= Len(s)
  /\ SubSeq(s, Len(s) - Len(suf) + 1, Len(s)) = suf

\* DirEntry.path: os.path.join(directory, name)
PathOf(n) == DirPath \o <<"/">> \o n

NoEntry == [kind |-> "none", lines |-> <<>>, readable |-> TRUE]
SubDir == [kind |-> "dir", lines |-> <<>>, readable |-> TRUE]
TextFile(ls, r) == [kind |-> "file", lines |-> ls, readable |-> r]

\* A line that holds the keyword is longer than one that does not.
LineBytes(hasWord) == IF hasWord THEN 2 ELSE 1

RECURSIVE Bytes(_)
Bytes(ls) == IF ls = <<>> THEN 0 ELSE LineBytes(Head(ls)) + Bytes(Tail(ls))

RECURSIVE CountTrue(_)
CountTrue(ls) ==
  IF ls = <<>> THEN 0
  ELSE (IF Head(ls) THEN 1 ELSE 0) + CountTrue(Tail(ls))

\* Whether os.stat(path) finds something, and the st_size it gives.
StatOk(n) == dirExists /\ fs[n].kind # "none"
StatSize(n) == IF fs[n].kind = "dir" THEN 4096 ELSE Bytes(fs[n].lines)

\* Whether open(path, 'r') and list(f) succeed, and what open raises.
OpenOk(n) == dirExists /\ fs[n].kind = "file" /\ fs[n].readable
OpenError(n) ==
  IF ~dirExists \/ fs[n].kind = "none" THEN "FileNotFoundError"
  ELSE IF fs[n].kind = "dir" THEN "IsADirectoryError"
  ELSE "PermissionError"

\* What a file holds when it is created: nothing, or one line with or
\* without the keyword.
FirstLines == {<<>>, <<TRUE>>, <<FALSE>>}

----------------------------------------------------------------------------
\* The history dict: items in insertion order

Keys(h) == {h[i].path : i \in 1..Len(h)}
Has(h, p) == p \in Keys(h)
Get(h, p) == h[CHOOSE i \in 1..Len(h) : h[i].path = p]
Rec(p, l, s) == [path |-> p, line |-> l, size |-> s]

\* h[p] = (l, s): an existing key keeps its place, a new one goes last.
Put(h, r) ==
  IF Has(h, r.path)
  THEN [i \in 1..Len(h) |-> IF h[i].path = r.path THEN r ELSE h[i]]
  ELSE Append(h, r)

\* h.pop(p)
Pop(h, p) == SelectSeq(h, LAMBDA r : r.path # p)

\* h.update(other)
RECURSIVE Update(_, _)
Update(h, other) ==
  IF other = <<>> THEN h ELSE Update(Put(h, Head(other)), Tail(other))

----------------------------------------------------------------------------
\* Log records

Ev(k, w, i) == [kind |-> k, who |-> w, idx |-> i]
EvNew(n) == Ev("new", n, -1)
EvFound(n, i) == Ev("found", n, i)
EvRemoved(p) == Ev("removed", p, -1)
EvDirMissing == Ev("dirmissing", DirPath, -1)
EvError == Ev("error", <<>>, -1)
EvExiting == Ev("exiting", <<>>, -1)
EvUptime == Ev("uptime", <<>>, -1)

Count(evs, k) == Cardinality({i \in 1..Len(evs) : evs[i].kind = k})
CountFor(evs, k, w) ==
  Cardinality({i \in 1..Len(evs) : evs[i].kind = k /\ evs[i].who = w})

----------------------------------------------------------------------------
\* scan_file's loop over the lines read (lines 84-90)

\* One pass of `for j, line in enumerate(list(f))` from index j on: i = j-1,
\* and a record is logged when (i > max_num and word in line) or j == 1.
RECURSIVE ScanFrom(_, _, _, _)
ScanFrom(ls, j, m, out) ==
  IF j >= Len(ls) THEN [found |-> out, max |-> m]
  ELSE LET i == j - 1
           hit == (i > m /\ ls[j + 1]) \/ j = 1
       IN IF hit THEN ScanFrom(ls, j + 1, i, Append(out, i))
          ELSE ScanFrom(ls, j + 1, m, out)

ScanLines(ls, m) == ScanFrom(ls, 0, m, <<>>)

\* Faulty variant: the records of one read in descending line order.
FoundEvents_Reversed(n, idxs) ==
  [k \in 1..Len(idxs) |-> EvFound(n, idxs[Len(idxs) + 1 - k])]

\* The 'Found' records of one read, in the order the loop logs them.
FoundEvents(n, idxs) == [k \in 1..Len(idxs) |-> EvFound(n, idxs[k])]

----------------------------------------------------------------------------
\* watch_dir's listing (lines 110-113)

Entry(n) == [name |-> n, path |-> PathOf(n), isdir |-> fs[n].kind = "dir"]

\* Faulty variant: the listing without the extension filter.
PassesFilter_Off(n) == TRUE

\* `if ext:` keeps the entries whose path ends with ext.
PassesFilter(n) == ext = NoExt \/ EndsWith(PathOf(n), ext)

Listed == {n \in Names : fs[n].kind # "none" /\ PassesFilter(n)}

\* os.scandir yields the entries in arbitrary order.
Orderings(S) == {s \in [1..Cardinality(S) -> S] : Range(s) = S}

\* `for file in files: if not file.is_dir():` (lines 115-116)
RECURSIVE SkipDirs(_)
SkipDirs(t) ==
  IF t = <<>> THEN t
  ELSE IF Head(t).isdir THEN SkipDirs(Tail(t)) ELSE t

ListedPaths == {files[i].path : i \in 1..Len(files)}

----------------------------------------------------------------------------
NotSeen == [seen |-> FALSE, lines |-> <<>>]
Seen(ls) == [seen |-> TRUE, lines |-> ls]

Init ==
  /\ dirExists = TRUE
  /\ fs = [n \in Names |-> NoEntry]
  /\ envLeft = MaxEnvSteps
  /\ ext \in {NoExt, LogExt}
  /\ exit_flag = FALSE
  /\ pc = "loop"
  /\ history = <<>>
  /\ whist = <<>>
  /\ wAlias = FALSE
  /\ shist = <<>>
  /\ sAlias = FALSE
  /\ files = <<>>
  /\ listed = FALSE
  /\ todo = <<>>
  /\ max_num = 0
  /\ events = <<>>
  /\ hist0 = <<>>
  /\ raised = FALSE
  /\ skipped = {}
  /\ reads = {}
  /\ prevRead = [n \in Names |-> NotSeen]
  /\ lastRead = [n \in Names |-> NotSeen]
  /\ discCount = [n \in Names |-> 0]
  /\ probeOk = FALSE
  /\ failedRead = {}
  /\ quiet = FALSE

----------------------------------------------------------------------------
\* The environment: other processes changing the watched directory

EnvStep ==
  /\ pc # "done"
  /\ envLeft > 0
  /\ envLeft' = envLeft - 1
  /\ quiet' = FALSE
  /\ UNCHANGED <<ext, progVars, locals>>

\* What is known of the files of S ends with them.
Forget(S) ==
  /\ prevRead' = [n \in Names |-> IF n \in S THEN NotSeen ELSE prevRead[n]]
  /\ lastRead' = [n \in Names |-> IF n \in S THEN NotSeen ELSE lastRead[n]]
  /\ discCount' = [n \in Names |-> IF n \in S THEN 0 ELSE discCount[n]]
  /\ failedRead' = failedRead \ S

CreateFile(n, ls, r) ==
  /\ EnvStep
  /\ dirExists
  /\ fs[n].kind = "none"
  /\ fs' = [fs EXCEPT ![n] = TextFile(ls, r)]
  /\ UNCHANGED <<dirExists, prevRead, lastRead, discCount, failedRead>>

AppendLine(n, hasWord) ==
  /\ EnvStep
  /\ dirExists
  /\ fs[n].kind = "file"
  /\ fs' = [fs EXCEPT ![n].lines = Append(@, hasWord)]
  /\ failedRead' = failedRead \ {n}
  /\ UNCHANGED <<dirExists, prevRead, lastRead, discCount>>

\* rm of one or more entries.
Remove(S) ==
  /\ EnvStep
  /\ dirExists
  /\ S # {}
  /\ \A n \in S : fs[n].kind # "none"
  /\ fs' = [n \in Names |-> IF n \in S THEN NoEntry ELSE fs[n]]
  /\ Forget(S)
  /\ UNCHANGED dirExists

MakeSubdir(n) ==
  /\ EnvStep
  /\ dirExists
  /\ fs[n].kind = "none"
  /\ fs' = [fs EXCEPT ![n] = SubDir]
  /\ UNCHANGED <<dirExists, prevRead, lastRead, discCount, failedRead>>

\* The file becomes unreadable (or readable again) for the program.
Chmod(n) ==
  /\ EnvStep
  /\ dirExists
  /\ fs[n].kind = "file"
  /\ fs' = [fs EXCEPT ![n].readable = ~@]
  /\ UNCHANGED <<dirExists, prevRead, lastRead, discCount, failedRead>>

RemoveDir ==
  /\ EnvStep
  /\ dirExists
  /\ dirExists' = FALSE
  /\ fs' = [n \in Names |-> NoEntry]
  /\ Forget(Names)

CreateDir ==
  /\ EnvStep
  /\ ~dirExists
  /\ dirExists' = TRUE
  /\ UNCHANGED <<fs, prevRead, lastRead, discCount, failedRead>>

Env ==
  \/ \E n \in Names, ls \in FirstLines, r \in BOOLEAN : CreateFile(n, ls, r)
  \/ \E n \in Names, b \in BOOLEAN : AppendLine(n, b)
  \/ \E S \in SUBSET Names : Remove(S)
  \/ \E n \in Names : MakeSubdir(n)
  \/ \E n \in Names : Chmod(n)
  \/ RemoveDir
  \/ CreateDir

----------------------------------------------------------------------------
\* The program

\* signal_handler (lines 40-58): logs the signal's name and sets exit_flag.
Signal ==
  /\ pc # "done"
  /\ ~exit_flag
  /\ \E sig \in Signals : exit_flag' = TRUE
  /\ UNCHANGED <<envVars, ext, pc, history, events, hist0, raised, skipped,
                 reads, files, listed, locals, ghosts, quiet>>

\* watch_dir and scan_file have returned or raised: their locals are gone.
ClearLocals ==
  /\ whist' = <<>>
  /\ wAlias' = FALSE
  /\ shist' = <<>>
  /\ sAlias' = FALSE
  /\ todo' = <<>>
  /\ max_num' = 0
  /\ probeOk' = FALSE
  /\ quiet' = FALSE

\* The exception classes main's try statement names (lines 159, 161):
\* FileNotFoundError, and Exception, the base of every class raised here.
Exceptions ==
  {"FileNotFoundError", "IsADirectoryError", "PermissionError", "RuntimeError"}

\* Faulty variant: main without its `except Exception` clause.
Caught_OnlyNotFound(exc) == exc = "FileNotFoundError"

Caught(exc) == exc = "FileNotFoundError" \/ exc \in Exceptions

\* Exception exc leaves watch_dir; main's except clauses (lines 159-164) log
\* it and go on to the sleep, and one they do not name ends the process. h
\* is main's dict as the calls left it.
Raise(exc, evs, h) ==
  /\ history' = h
  /\ ClearLocals
  /\ IF Caught(exc)
     THEN /\ events' = Append(evs, EvError)
          /\ raised' = TRUE
          /\ pc' = "sleep"
     ELSE /\ events' = evs
          /\ raised' = raised
          /\ pc' = "crashed"

\* `while not exit_flag:` (line 154), and lines 170-172 once the flag is set.
\* Faulty variant: `while True:`.
LoopContinues_Forever(flag) == TRUE

\* `while not exit_flag:` (line 154)
LoopContinues(flag) == ~flag

LoopCheck ==
  /\ pc = "loop"
  /\ IF ~LoopContinues(exit_flag)
     THEN /\ pc' = "done"
          /\ events' = events \o <<EvExiting, EvUptime>>
          /\ UNCHANGED <<hist0, raised, skipped, reads, files, listed>>
     ELSE /\ pc' = "isdir"
          /\ events' = <<>>
          /\ hist0' = history
          /\ raised' = FALSE
          /\ skipped' = {}
          /\ reads' = {}
          /\ files' = <<>>
          /\ listed' = FALSE
  /\ UNCHANGED <<envVars, ext, exit_flag, history, locals, ghosts, quiet>>

\* watch_dir up to os.path.isdir (lines 102-108), and its else branch (lines
\* 127-131) with main's history.update of what it returns (line 158).
\* `if not history: history = {}` gives watch_dir a dict of its own when
\* main's is empty.
\* Faulty variant: watch_dir without the os.path.isdir test.
DirIsThere_Always == TRUE

\* os.path.isdir(directory) (line 108)
DirIsThere == dirExists

IsDir ==
  /\ pc = "isdir"
  /\ IF DirIsThere
     THEN /\ pc' = "list"
          /\ whist' = history
          /\ wAlias' = (history # <<>>)
          /\ quiet' = TRUE
          /\ UNCHANGED <<events, history, shist, sAlias, todo, max_num,
                         probeOk>>
     ELSE /\ events' = Append(events, EvDirMissing)
          /\ history' = Update(history, history)
          /\ pc' = "sleep"
          /\ ClearLocals
  /\ UNCHANGED <<envVars, ext, exit_flag, hist0, raised, skipped, reads,
                 files, listed, ghosts>>

\* Where the for loop of lines 115-117 goes with t left to visit.
Advance(t) ==
  /\ todo' = SkipDirs(t)
  /\ pc' = IF SkipDirs(t) = <<>> THEN "reconcile" ELSE "probe"

\* os.scandir and the filter (lines 110-113); it raises FileNotFoundError
\* when the directory has gone since isdir.
List ==
  /\ pc = "list"
  /\ IF dirExists
     THEN /\ \E order \in Orderings(Listed) :
               files' = [k \in 1..Len(order) |-> Entry(order[k])]
          /\ listed' = TRUE
          /\ Advance(files')
          /\ UNCHANGED <<events, raised, history, whist, wAlias, shist,
                         sAlias, max_num, probeOk, quiet>>
     ELSE /\ Raise("FileNotFoundError", events, history)
          /\ UNCHANGED <<files, listed>>
  /\ UNCHANGED <<envVars, ext, exit_flag, hist0, skipped, reads, ghosts>>

\* Faulty variant: the test reads element 0 of the record (the line), not the size.
SizeUnchanged_Line(h, p, n) == Get(h, p).line = StatSize(n)

\* `history[file.path][1] == os.stat(file.path).st_size` (line 75)
SizeUnchanged(h, p, n) == Get(h, p).size = StatSize(n)

\* scan_file up to the read (lines 68-80). `if not history: history = {}`
\* gives scan_file a dict of its own when watch_dir's is empty.
Probe ==
  /\ pc = "probe"
  /\ LET n == Head(todo).name
         p == Head(todo).path
         own == (whist = <<>>)
     IN IF Has(whist, p)
        THEN IF ~StatOk(n)
             THEN /\ Raise("FileNotFoundError", events, history)
                  /\ UNCHANGED <<skipped, discCount>>
             ELSE IF SizeUnchanged(whist, p, n)
             THEN \* return history (line 76), history.update (line 117)
                  /\ skipped' = skipped \cup {n}
                  /\ whist' = Update(whist, whist)
                  /\ Advance(Tail(todo))
                  /\ UNCHANGED <<events, raised, history, wAlias, shist,
                                 sAlias, max_num, discCount, probeOk, quiet>>
             ELSE /\ pc' = "read"
                  /\ shist' = whist
                  /\ sAlias' = TRUE
                  /\ probeOk' = OpenOk(n)
                  /\ UNCHANGED <<events, raised, history, whist, wAlias,
                                 todo, max_num, skipped, discCount, quiet>>
        ELSE /\ discCount' = [discCount EXCEPT ![n] = Min(@ + 1, 2)]
             /\ IF ~StatOk(n)
                THEN /\ Raise("FileNotFoundError", Append(events, EvNew(n)),
                           history)
                     /\ UNCHANGED skipped
                ELSE /\ events' = Append(events, EvNew(n))
                     /\ shist' = Put(whist, Rec(p, 0, StatSize(n)))
                     /\ sAlias' = ~own
                     /\ whist' = IF own THEN whist ELSE shist'
                     /\ history' = IF ~own /\ wAlias THEN shist' ELSE history
                     /\ pc' = "read"
                     /\ probeOk' = OpenOk(n)
                     /\ UNCHANGED <<raised, wAlias, todo, max_num, skipped,
                                    quiet>>
  /\ UNCHANGED <<envVars, ext, exit_flag, hist0, reads, files, listed,
                 prevRead, lastRead, failedRead>>

\* open and the loop over the lines (lines 83-90).
Read ==
  /\ pc = "read"
  /\ LET n == Head(todo).name
         p == Head(todo).path
     IN IF ~OpenOk(n)
        THEN /\ Raise(OpenError(n), events, history)
             /\ failedRead' = IF OpenError(n) = "PermissionError"
                               THEN failedRead \cup {n} ELSE failedRead
             /\ UNCHANGED <<reads, prevRead, lastRead>>
        ELSE LET r == ScanLines(fs[n].lines, Get(shist, p).line)
             IN /\ events' = events \o FoundEvents(n, r.found)
                /\ max_num' = r.max
                /\ reads' = reads \cup {n}
                /\ prevRead' = [prevRead EXCEPT ![n] = lastRead[n]]
                /\ lastRead' = [lastRead EXCEPT ![n] = Seen(fs[n].lines)]
                /\ failedRead' = failedRead \ {n}
                /\ pc' = "writeback"
                /\ probeOk' = FALSE
                /\ UNCHANGED <<raised, history, whist, wAlias, shist, sAlias,
                               todo, quiet>>
  /\ UNCHANGED <<envVars, ext, exit_flag, hist0, skipped, files, listed,
                 discCount>>

\* history.update with a second os.stat (line 92), return (line 94) and
\* watch_dir's history.update of what scan_file returns (line 117).
WriteBack ==
  /\ pc = "writeback"
  /\ LET n == Head(todo).name
         p == Head(todo).path
         h == Put(shist, Rec(p, max_num, StatSize(n)))
     IN IF ~StatOk(n)
        THEN Raise("FileNotFoundError", events, history)
        ELSE /\ whist' = Update(IF sAlias THEN h ELSE whist, h)
             /\ history' = IF wAlias THEN whist' ELSE history
             /\ shist' = <<>>
             /\ sAlias' = FALSE
             /\ max_num' = 0
             /\ Advance(Tail(todo))
             /\ UNCHANGED <<events, raised, wAlias, probeOk, quiet>>
  /\ UNCHANGED <<envVars, ext, exit_flag, hist0, skipped, reads, files,
                 listed, ghosts>>

\* The first key of h, in the dict's order, that is not in the set paths
\* (0: none).
FirstMissing(h, paths) ==
  LET miss == {i \in 1..Len(h) : h[i].path \notin paths}
  IN IF miss = {} THEN 0 ELSE CHOOSE i \in miss : \A k \in miss : i <= k

\* The removal loop (lines 119-126), return (line 131) and main's
\* history.update (line 158). history.pop inside `for file in history` makes
\* the loop's next step raise RuntimeError (dictionary changed size during
\* iteration).
Reconcile ==
  /\ pc = "reconcile"
  /\ LET k == FirstMissing(whist, ListedPaths)
     IN IF k = 0
        THEN /\ history' = Update(history, whist)
             /\ pc' = "sleep"
             /\ ClearLocals
             /\ UNCHANGED <<events, raised>>
        ELSE Raise("RuntimeError", Append(events, EvRemoved(whist[k].path)),
                   IF wAlias THEN Pop(whist, whist[k].path) ELSE history)
  /\ UNCHANGED <<envVars, ext, exit_flag, hist0, skipped, reads, files,
                 listed, ghosts>>

\* time.sleep(args.interval) (line 168)
Sleep ==
  /\ pc = "sleep"
  /\ pc' = "loop"
  /\ UNCHANGED <<envVars, ext, exit_flag, history, events, hist0, raised,
                 skipped, reads, files, listed, locals, ghosts, quiet>>

Program ==
  \/ LoopCheck
  \/ IsDir
  \/ List
  \/ Probe
  \/ Read
  \/ WriteBack
  \/ Reconcile
  \/ Sleep

Next == Env \/ Signal \/ Program

Spec == Init /\ [][Next]_vars

\* The interpreter keeps running the program.
FairSpec == Spec /\ WF_vars(Program)

----------------------------------------------------------------------------
\* Properties

IsPrefix(a, b) == Len(a) <= Len(b) /\ SubSeq(b, 1, Len(a)) = a

\* The 1-based number of the line whose visit logged index i: the loop logs
\* i = j - 1 for the line at 0-based position j (lines 85-89).
LineOf(i) == i + 2

\* The lines of file n that the 'Found' records of the cycle are about.
FoundLines(n) ==
  {LineOf(events[i].idx) : i \in {k \in 1..Len(events) :
                            events[k].kind = "found" /\ events[k].who = n}}

\* The tracked paths that the cycle's listing does not hold.
Gone == Keys(hist0) \ ListedPaths

\* The poll has ended, and its listing and its scans raised nothing: the
\* removal loop ran.
Reconciled ==
  /\ pc = "sleep"
  /\ listed
  /\ raised => Count(events, "removed") > 0

\* A step of the program at the place at.
StepAt(at) == pc = at /\ <<pc, todo>>' # <<pc, todo>>

\* C1: incremental-only matching: when a file was read once (N >= 1 lines)
\* and M lines were appended before the poll that reads it again, that poll
\* logs exactly one match per appended line that holds the keyword (K in
\* all) and none for the lines 1..N.
C1_IncrementalOnly ==
  \A n \in reads :
    LET old == prevRead[n].lines
        new == lastRead[n].lines
    IN (/\ prevRead[n].seen
        /\ IsPrefix(old, new)
        /\ 1 <= Len(old)
        /\ Len(old) < Len(new)) =>
         /\ CountFor(events, "found", n)
              = CountTrue(SubSeq(new, Len(old) + 1, Len(new)))
         /\ FoundLines(n) = {k \in (Len(old) + 1)..Len(new) : new[k]}

\* C2: unchanged-file skip: when scan_file is called for a path that main's
\* history holds with the size the file has now, the call logs nothing (no
\* discovery, no match), reads nothing and leaves every history entry as it
\* was.
C2_UnchangedFileSkip ==
  [][(/\ StepAt("probe")
      /\ Has(history, Head(todo).path)
      /\ StatOk(Head(todo).name)
      /\ Get(history, Head(todo).path).size = StatSize(Head(todo).name))
     => /\ events' = events
        /\ history' = history
        /\ discCount' = discCount
        /\ reads' = reads
        /\ pc' \in {"probe", "reconcile"}
        /\ Head(todo).name \in skipped']_vars

C2_Witness ==
  /\ pc = "sleep"
  /\ \E n \in skipped : Has(history, PathOf(n)) /\ Get(history, PathOf(n)).line > 0

\* C3: discovery-once: while a file stays in the filtered listing, the polls
\* log at most one 'New file' record for it.
C3_DiscoveryOnce == \A n \in Names : discCount[n] <= 1

\* C4: removal reconciliation: a poll that lists the directory and scans
\* its files logs exactly one removal for every tracked path the listing no
\* longer holds, and the path is out of main's history when the poll ends.
C4_RemovalReconciliation ==
  Reconciled =>
    \A p \in Gone : CountFor(events, "removed", p) = 1 /\ ~Has(history, p)

\* C5: history/listing invariant: when a poll that listed the directory and
\* scanned its files ends, the keys of main's history are exactly the paths
\* of the listed entries that are not directories.
C5_HistoryIsListing ==
  Reconciled =>
    Keys(history) =
      {files[i].path : i \in {k \in 1..Len(files) : ~files[k].isdir}}

\* C6: reconciliation covers the full path set in one cycle: when k >= 1
\* tracked paths are missing from the listing, that poll logs k removals and
\* leaves none of the k paths in the history.
C6_ReconcileAllAtOnce ==
  (Reconciled /\ Gone # {}) =>
    /\ Count(events, "removed") = Cardinality(Gone)
    /\ Keys(history) \cap Gone = {}

\* C7: extension filter exclusivity: with a filter set, a file whose name
\* does not end with it is never handed to scan_file, is never in a log
\* record (discovery, match, removal) and is never a key of the history.
C7_FilterExclusive ==
  ext # NoExt =>
    \A n \in Names :
      ~EndsWith(n, ext) =>
        /\ \A i \in 1..Len(events) : events[i].who \notin {n, PathOf(n)}
        /\ ~Has(history, PathOf(n))
        /\ ~Has(whist, PathOf(n))
        /\ ~Has(shist, PathOf(n))
        /\ pc \in {"probe", "read", "writeback"} => Head(todo).name # n
        /\ n \notin reads \cup skipped
        /\ discCount[n] = 0

C7_Witness ==
  /\ ext # NoExt
  /\ pc = "sleep"
  /\ listed
  /\ ~raised
  /\ reads # {}
  /\ fs[TxtName].kind = "file"
  /\ TRUE \in Range(fs[TxtName].lines)

\* C8: directory-missing resilience: a call of watch_dir that finds no
\* directory logs the directory-missing warning and nothing else, raises
\* nothing, and leaves main's history as it was.
C8_DirMissing ==
  [][(StepAt("isdir") /\ ~dirExists)
     => /\ events' = Append(events, EvDirMissing)
        /\ history' = history
        /\ raised' = raised
        /\ pc' = "sleep"]_vars

C8_Witness ==
  /\ pc = "sleep"
  /\ events = <<EvDirMissing>>
  /\ ~raised
  /\ history # <<>>
  /\ history = hist0

\* C9: failure isolation: a fault raised in a poll iteration never ends the
\* process; it is logged as one cycle error and is followed by the sleep and,
\* unless termination was requested, by the next call of watch_dir.
C9_FailureIsolation ==
  /\ [](pc # "crashed")
  /\ []((pc = "sleep" /\ raised) => Count(events, "error") = 1)
  /\ [][(raised' /\ ~raised) => pc' = "sleep"]_vars
  /\ [][(pc = "sleep" /\ pc' # pc) => pc' = "loop"]_vars
  /\ [][(pc = "loop" /\ pc' # pc /\ ~exit_flag) => pc' = "isdir"]_vars
  /\ (raised /\ pc = "sleep") ~> (pc = "isdir" \/ exit_flag)

C9_Witness ==
  /\ pc = "loop"
  /\ raised
  /\ ~exit_flag
  /\ Count(events, "error") = 1

\* C10: shutdown liveness: once set, exit_flag stays set; the loop is left
\* only at its condition, so the cycle in progress ends first; the shutdown
\* marker with the uptime is logged exactly once, no cycle starts after it,
\* and a set flag leads to that end.
C10_Shutdown ==
  /\ [][exit_flag => exit_flag']_vars
  /\ [][(pc' = "done" /\ pc # "done") => (pc = "loop" /\ exit_flag)]_vars
  /\ [][pc = "done" => pc' = "done"]_vars
  /\ [](Count(events, "uptime") = IF pc = "done" THEN 1 ELSE 0)
  /\ exit_flag ~> (pc = "done")

C10_Witness ==
  /\ pc = "done"
  /\ exit_flag
  /\ history # <<>>
  /\ Count(events, "uptime") = 1

\* C11: first-scan match correctness: when scan_file reads a file it has
\* just discovered, it logs one match for every line that holds the keyword
\* (the first line included) and none for a line that does not, each with
\* the index of its line.
C11_FirstScanMatches ==
  \A n \in reads :
    (CountFor(events, "new", n) = 1 /\ lastRead[n].seen) =>
      LET ls == lastRead[n].lines
      IN /\ CountFor(events, "found", n) = CountTrue(ls)
         /\ FoundLines(n) = {k \in 1..Len(ls) : ls[k]}

\* C12: vanished-file leaves the history unchanged: when a file that
\* scan_file's size probe found disappears or becomes unreadable before the
\* read, main's history entry for its path after the cycle is what it was
\* before the cycle: the same record, or still none.
C12_VanishedKeepsHistory ==
  [][(/\ StepAt("read")
      /\ probeOk
      /\ ~OpenOk(Head(todo).name))
     => /\ Has(history', Head(todo).path) = Has(hist0, Head(todo).path)
        /\ Has(hist0, Head(todo).path) =>
             Get(history', Head(todo).path) = Get(hist0, Head(todo).path)]_vars

\* C13: vanished-file is absorbed by the watcher: when a listed file has
\* vanished by the time scan_file is called for it, nothing is raised to
\* main (no cycle error is logged) and watch_dir goes on with the next
\* listed file, or with the removal loop when there is none.
C13_VanishedAbsorbed ==
  [][(/\ StepAt("probe")
      /\ dirExists
      /\ fs[Head(todo).name].kind = "none")
     => /\ ~raised'
        /\ Count(events', "error") = 0
        /\ pc' \in {"probe", "reconcile"}
        /\ todo' = SkipDirs(Tail(todo))]_vars

\* C14: polling is the retry mechanism: when the read of a file failed
\* because the file was unreadable, and the file is readable again with the
\* content it had, the next call of scan_file for it goes on to read it; it
\* does not return as for a file already scanned.
C14_RetryByPolling ==
  [][(/\ StepAt("probe")
      /\ Head(todo).name \in failedRead
      /\ OpenOk(Head(todo).name)
      /\ fs[Head(todo).name].lines # <<>>)
     => /\ pc' = "read"
        /\ Head(todo).name \notin skipped']_vars

\* C15: bounded cancellation: every call of watch_dir follows a loop test
\* that found exit_flag clear, and a loop test made once the flag is set
\* leaves the loop; so after the handler has set the flag the only call that
\* can still begin is the one whose loop test came before, and no further
\* cycle starts.
C15_BoundedCancellation ==
  /\ [][(pc' = "isdir" /\ pc # "isdir") => (pc = "loop" /\ ~exit_flag)]_vars
  /\ [][(exit_flag /\ pc # "isdir") => pc' # "isdir"]_vars
  /\ [][(exit_flag /\ pc = "loop" /\ pc' # pc) => pc' = "done"]_vars
  /\ [][(pc = "isdir" /\ pc' # pc) => pc' \in {"list", "sleep"}]_vars

\* The request races the loop test: the flag is set after the test and
\* before the call.
C15_Witness ==
  /\ pc = "isdir"
  /\ exit_flag
  /\ history # <<>>

\* C16: event ordering within one scan_file call: the 'New file' record of
\* a file, when there is one, comes before every 'Found' record of the file,
\* and the 'Found' records of the file come with strictly ascending line
\* index.
C16_EventOrder ==
  \A a, b \in 1..Len(events) :
    (/\ a < b
     /\ events[a].who = events[b].who
     /\ events[a].kind = "found") =>
       /\ events[b].kind # "new"
       /\ events[b].kind = "found" => events[a].idx < events[b].idx

C16_Witness ==
  \E n \in Names :
    /\ pc = "sleep"
    /\ ~raised
    /\ CountFor(events, "new", n) = 1
    /\ CountFor(events, "found", n) >= 2

\* C17: lastScannedLine is the highest line visited: the record a scan_file
\* call writes back after reading a file of one or more lines holds the
\* index of the file's last line, whether or not a line held the keyword.
\* The index of line k (1-based) is taken to be k, k - 1 (0-based) or k - 2
\* (the i = j - 1 the loop logs).
C17_LastLineRecorded ==
  [][(/\ StepAt("writeback")
      /\ StatOk(Head(todo).name)
      /\ lastRead[Head(todo).name].seen
      /\ Len(lastRead[Head(todo).name].lines) >= 1)
     => Get(whist', Head(todo).path).line \in
          {Len(lastRead[Head(todo).name].lines) - d : d \in {0, 1, 2}}]_vars

\* C18: a call of watch_dir during which no other process changes the
\* directory, which exists and whose listed files are all readable, raises
\* no fault to main and logs no cycle error, however many tracked files were
\* deleted before the call.
C18_QuietCycleNoFault ==
  [][(/\ quiet
      /\ dirExists
      /\ \A n \in Listed : fs[n].kind = "dir" \/ fs[n].readable)
     => /\ ~raised'
        /\ Count(events', "error") = 0]_vars

\* C19: the recorded size never covers unread content: when lines are
\* appended to a file after scan_file has read it and before the record is
\* written back, the size in the record written is not the size the file has
\* now, so that the next poll reads the file again.
C19_SizeCoversOnlyRead ==
  [][(/\ StepAt("writeback")
      /\ StatOk(Head(todo).name)
      /\ fs[Head(todo).name].kind = "file"
      /\ lastRead[Head(todo).name].seen
      /\ IsPrefix(lastRead[Head(todo).name].lines, fs[Head(todo).name].lines)
      /\ Len(lastRead[Head(todo).name].lines) < Len(fs[Head(todo).name].lines))
     => Get(whist', Head(todo).path).size # StatSize(Head(todo).name)]_vars

\* C20: a fault raised while scanning one file does not discard the records
\* of the files scanned before it in the same cycle: once main has caught
\* the fault, its history holds a record for every file whose scan_file call
\* read the file and returned in that cycle, whether the cycle began with an
\* empty history or not.
C20_FaultKeepsRecords ==
  [][(/\ pc \in {"probe", "read", "writeback"}
      /\ raised'
      /\ ~raised)
     => \A n \in reads \ {Head(todo).name} : Has(history', PathOf(n))]_vars

====
